---- MODULE Spec2Model ----
(***************************************************************************)
(* Model of the WebSocket relay server (src/relay-server.go): the Hub      *)
(* control loop, the connection handler with its uniqueness gate, and the  *)
(* two pumps (ReadPump = ingest loop, WritePump = dispatch loop) of every  *)
(* Client.                                                                 *)
(*                                                                         *)
(* A Client object is identified by a number 1..MaxClients (the pointer    *)
(* *Client of the code); 0 stands for "no client" (a missing map entry).   *)
(* Usernames are the numbers 1..MaxNames.  A payload is a sequence of      *)
(* bytes; len(message.Data) is Len of it.                                  *)
(*                                                                         *)
(* The counters of ServerStats are uint64 in the code; the model bounds    *)
(* the number of payloads read (MaxMsgs), so no counter comes near 2^64.   *)
(***************************************************************************)
EXTENDS Integers, Sequences, FiniteSets, TLC

\* ------------------------------------------------------------------ bounds
\* Number of connection attempts (each may construct one Client object).
MaxClients == 3
\* Number of distinct usernames that connection attempts may ask for.
MaxNames == 3
\* Capacity of a Client's send channel: make(chan []byte, 256), scaled down.
QueueCap == 1
\* Capacity of hub.broadcast: make(chan Message, 256), scaled down.
BroadcastCap == 2
\* Total number of payloads the ingest loops read over a run.
MaxMsgs == 3
\* Number of connection attempts in the runs that hold a health request.
HealthClients == 2

Ids == 1..MaxClients
Names == 1..MaxNames
\* The server never looks into a payload, so the k-th payload read over a run
\* is taken to be k bytes of value k: all payloads differ, in content and length.
Payload(k) == [i \in 1..k |-> k]
\* The zero value of Message: a ReadPump that is not blocked holds none.
NoMessage == [from |-> 0, data |-> <<>>, id |-> 0, late |-> FALSE]

VARIABLES
    clients,    \* Hub.clients: username -> Client (0: no entry)
    broadcast,  \* Hub.broadcast: buffered channel of Message
    stats,      \* Hub.stats
    hubPc,      \* position of Hub.Run: "select", "panic"
    hpc,        \* position of the HandleWebSocket call of each attempt
    username,   \* vars["username"] of the request, then Client.username (0: none yet)
    send,       \* Client.send: the payloads buffered in the channel
    closes,     \* number of close(client.send) calls made on the channel
    conn,       \* Client.conn: "none", "open", "closed" (closed or broken)
    rpc,        \* position of Client.ReadPump
    pending,    \* the Message ReadPump holds while blocked on hub.broadcast
    wpc,        \* position of Client.WritePump
    written,    \* payloads WritePump wrote to the transport with success
    msgsRead,   \* history: number of payloads read by all ReadPumps
    entered,    \* history: the payloads in the order they entered hub.broadcast
    evicted,    \* history: Clients removed by the default branch of the fan-out
    health,     \* position of the HandleHealth call: "idle", "listed", "racing", "done"
    snap        \* users, clientCount and stats of HandleHealth

vars == <<clients, broadcast, stats, hubPc, hpc, username, send, closes,
          conn, rpc, pending, wpc, written, msgsRead, entered, evicted,
          health, snap>>

\* The process is running: an unrecovered panic of the Hub goroutine ends it.
Alive == hubPc # "panic"

\* ------------------------------------------------------------------ NewHub
Init ==
    /\ clients = [n \in Names |-> 0]
    /\ broadcast = <<>>
    /\ stats = [TotalConnections |-> 0, TotalMessages |-> 0, TotalBytesRelayed |-> 0]
    /\ hubPc = "select"
    /\ hpc = [c \in Ids |-> "idle"]
    /\ username = [c \in Ids |-> 0]
    /\ send = [c \in Ids |-> <<>>]
    /\ closes = [c \in Ids |-> 0]
    /\ conn = [c \in Ids |-> "none"]
    /\ rpc = [c \in Ids |-> "none"]
    /\ pending = [c \in Ids |-> NoMessage]
    /\ wpc = [c \in Ids |-> "none"]
    /\ written = [c \in Ids |-> <<>>]
    /\ msgsRead = 0
    /\ entered = <<>>
    /\ evicted = {}
    /\ health = "idle"
    /\ snap = [users |-> {}, clientCount |-> 0,
               stats |-> [TotalConnections |-> 0, TotalMessages |-> 0,
                          TotalBytesRelayed |-> 0]]

\* ------------------------------------------------------ HandleWebSocket
\* A gate that finds no name taken.
GateExists_Blind(n) == FALSE

\* hub.clients[username] exists (the gate's lookup under RLock).
GateExists(n) == clients[n] # 0

\* Usernames are compared for equality only, so an attempt asks for a name
\* already asked for or for the smallest name not yet asked for.
AskedNames == {username[c] : c \in Ids} \ {0}
MayAsk(n) == n \in Names /\ \A k \in Names : k < n => k \in AskedNames

\* Attempts are numbered in the order in which their handlers start.
NextAttempt(c) == hpc[c] = "idle" /\ \A d \in Ids : d < c => hpc[d] # "idle"

\* (The route /ws/{username} matches no empty name, so the 400 branch of the
\* handler is never taken.)

\* The username is a key of hub.clients: 409 Conflict, the handler returns
\* before the upgrade; no Client is constructed.
GateReject(c, n) ==
    /\ Alive /\ NextAttempt(c) /\ MayAsk(n)
    /\ GateExists(n)
    /\ hpc' = [hpc EXCEPT ![c] = "rejected"]
    /\ username' = [username EXCEPT ![c] = n]
    /\ UNCHANGED <<clients, broadcast, stats, hubPc, send, closes,
                   conn, rpc, pending, wpc, written, msgsRead, entered, evicted,
                   health, snap>>

\* The username is not a key of hub.clients: the handler goes on to the upgrade.
GatePass(c, n) ==
    /\ Alive /\ NextAttempt(c) /\ MayAsk(n)
    /\ ~GateExists(n)
    /\ hpc' = [hpc EXCEPT ![c] = "checked"]
    /\ username' = [username EXCEPT ![c] = n]
    /\ UNCHANGED <<clients, broadcast, stats, hubPc, send, closes,
                   conn, rpc, pending, wpc, written, msgsRead, entered, evicted,
                   health, snap>>

\* upgrader.Upgrade fails: the handler logs and returns.
UpgradeFail(c) ==
    /\ Alive /\ hpc[c] = "checked"
    /\ hpc' = [hpc EXCEPT ![c] = "upgradefailed"]
    /\ UNCHANGED <<clients, broadcast, stats, hubPc, username, send, closes,
                   conn, rpc, pending, wpc, written, msgsRead, entered, evicted,
                   health, snap>>

\* upgrader.Upgrade succeeds and the Client is constructed with an empty send
\* channel; the handler then blocks on hub.register <- client.
Upgrade(c) ==
    /\ Alive /\ hpc[c] = "checked"
    /\ hpc' = [hpc EXCEPT ![c] = "register"]
    /\ conn' = [conn EXCEPT ![c] = "open"]
    /\ UNCHANGED <<clients, broadcast, stats, hubPc, username, send, closes,
                   rpc, pending, wpc, written, msgsRead, entered, evicted,
                   health, snap>>

\* ------------------------------------------------------------- Hub.Run
\* The Hub is in its select with a Message waiting in broadcast.
BroadcastPending == hubPc = "select" /\ broadcast # <<>>

\* A HandleHealth call holds h.mu.RLock: h.mu.Lock() of the Hub waits.
MuReadLocked == health \in {"listed", "racing"}

\* case client := <-h.register.  The hand-off on the unbuffered channel lets
\* the handler go on to start WritePump and ReadPump.
\* A Register that counts nothing.
StatsAfterRegister_None(s) == s

\* h.stats.TotalConnections++
StatsAfterRegister(s) == [s EXCEPT !.TotalConnections = @ + 1]

\* A Register that leaves an entry already stored under the name in place.
ClientsAfterRegister_KeepFirst(c) ==
    IF clients[username[c]] # 0 THEN clients ELSE [clients EXCEPT ![username[c]] = c]

\* h.clients[client.username] = client
ClientsAfterRegister(c) == [clients EXCEPT ![username[c]] = c]

HubRegister(c) ==
    /\ hubPc = "select" /\ hpc[c] = "register"
    /\ ~MuReadLocked
    /\ clients' = ClientsAfterRegister(c)
    /\ stats' = StatsAfterRegister(stats)
    /\ hpc' = [hpc EXCEPT ![c] = "done"]
    /\ rpc' = [rpc EXCEPT ![c] = "read"]
    /\ wpc' = [wpc EXCEPT ![c] = "run"]
    /\ UNCHANGED <<broadcast, hubPc, username, send, closes, conn, pending,
                   written, msgsRead, entered, evicted, health, snap>>

\* A guard that finds every name present.
UnregisterGuard_Always(c) == TRUE

\* The guard of the unregister case: _, ok := h.clients[client.username].
UnregisterGuard(c) == clients[username[c]] # 0

\* An unregister that closes the channel and leaves the entry in clients.
ClientsAfterUnregister_Keep(c) == clients

\* delete(h.clients, client.username): the entry under the name goes.
ClientsAfterUnregister(c) == [clients EXCEPT ![username[c]] = 0]

\* case client := <-h.unregister.  close of an already closed channel panics,
\* and nothing recovers the panic: the process ends.  After the hand-off the
\* deferred function of ReadPump closes the connection.
HubUnregister(c) ==
    /\ hubPc = "select" /\ rpc[c] = "unreg"
    /\ ~MuReadLocked
    /\ IF UnregisterGuard(c)
          THEN /\ clients' = ClientsAfterUnregister(c)
               /\ closes' = [closes EXCEPT ![c] = @ + 1]
          ELSE UNCHANGED <<clients, closes>>
    /\ IF UnregisterGuard(c) /\ closes[c] > 0
          THEN /\ hubPc' = "panic"
               /\ UNCHANGED <<rpc, conn>>
          ELSE /\ hubPc' = "select"
               /\ rpc' = [rpc EXCEPT ![c] = "done"]
               /\ conn' = [conn EXCEPT ![c] = "closed"]
    /\ UNCHANGED <<broadcast, stats, hpc, username, send, pending, wpc,
                   written, msgsRead, entered, evicted, health, snap>>

\* case message := <-h.broadcast: the counters under mu.Lock, then the
\* fan-out under mu.RLock.
\* Counters that miss the bytes of a Message.
StatsAfterBroadcast_NoBytes(s, m) == [s EXCEPT !.TotalMessages = @ + 1]

StatsAfterBroadcast(s, m) ==
    [s EXCEPT !.TotalMessages = @ + 1, !.TotalBytesRelayed = @ + Len(m.data)]

\* A sweep that does not skip the sender.
IsRecipient_All(n, m) == TRUE

\* for username, client := range h.clients: if username != message.From
IsRecipient(n, m) == n # m.from
Recipients(m) == {clients[n] : n \in {k \in Names : clients[k] # 0 /\ IsRecipient(k, m)}}
\* A push that never takes the default branch.
CanPush_Always(c) == TRUE

\* case client.send <- message.Data: is taken when the channel has room.
CanPush(c) == Len(send[c]) < QueueCap

\* A push that waits for room: a plain client.send <- message.Data.
PushReady_Blocking(c) == Len(send[c]) < QueueCap

\* select { case client.send <- message.Data: ... default: ... } is ready
\* whatever the channel holds: with a default case the select never waits.
PushReady(c) == TRUE

\* A push that enqueues the payload twice.
Pushed_Twice(q, d) == Append(Append(q, d), d)

Pushed(q, d) == Append(q, d)
\* A send on a closed channel panics, also inside a select.
PushPanics(m) == \E c \in Recipients(m) : closes[c] > 0

\* A sweep that, finding one recipient full, evicts them all.
SweepEvicts_All(m, to) == IF to = Recipients(m) THEN {} ELSE Recipients(m)

\* The recipients that take the default branch: those not pushed to.
SweepEvicts(m, to) == Recipients(m) \ to

\* A sweep that empties clients.
ClientsAfterSweep_Clear(ev) == [n \in Names |-> 0]

\* delete(h.clients, username) for every recipient the sweep found full.
ClientsAfterSweep(ev) == [n \in Names |-> IF clients[n] \in ev THEN 0 ELSE clients[n]]

\* A receive that takes the Message that entered the channel last.
Receive_Last(q) == [message |-> q[Len(q)], rest |-> SubSeq(q, 1, Len(q) - 1)]

\* message := <-h.broadcast takes the Message that has been in the channel
\* longest and leaves the others in their order.
Receive(q) == [message |-> Head(q), rest |-> Tail(q)]

\* Nothing but the Hub writes clients and appends to a send channel, and a
\* WritePump taking a payload while the Hub sweeps has the effect of taking
\* it before or after the sweep: the case is one step.
HubBroadcast ==
    /\ hubPc = "select" /\ broadcast # <<>>
    /\ health # "listed"
    /\ \A c \in Recipients(Receive(broadcast).message) : PushReady(c)
    /\ broadcast' = Receive(broadcast).rest
    /\ stats' = StatsAfterBroadcast(stats, Receive(broadcast).message)
    /\ LET m == Receive(broadcast).message
           to == {c \in Recipients(m) : CanPush(c)}
           ev == SweepEvicts(m, to)
       IN IF PushPanics(m)
             THEN /\ hubPc' = "panic"
                  /\ UNCHANGED <<clients, send, closes, evicted>>
             ELSE /\ hubPc' = "select"
                  /\ send' = [c \in Ids |-> IF c \in to THEN Pushed(send[c], m.data)
                                                        ELSE send[c]]
                  /\ closes' = [c \in Ids |-> IF c \in ev THEN closes[c] + 1
                                                          ELSE closes[c]]
                  /\ clients' = ClientsAfterSweep(ev)
                  /\ evicted' = evicted \cup ev
    /\ health' = IF health = "racing" THEN "listed" ELSE health
    /\ UNCHANGED <<hpc, username, conn, rpc, pending, wpc, written, msgsRead,
                   entered, snap>>

\* ------------------------------------------------------ Client.ReadPump
\* The Message ReadPump builds of the payload it read.  The fields id and late
\* are history only: id names the sending Client (the Message of the code
\* carries the name alone) and late tells that the payload was read after the
\* Hub had evicted that Client.  The Hub reads neither.
MessageOf(c, d) ==
    [from |-> username[c], data |-> d, id |-> c, late |-> c \in evicted]

\* A send that puts the Message in front of those waiting.
Sent_Front(q, m) == <<m>> \o q

\* c.hub.broadcast <- Message{...}: the Message goes behind those waiting in
\* the channel.
Sent(q, m) == Append(q, m)

\* c.conn.ReadMessage() returns a payload sent by the peer, and
\* c.hub.broadcast <- Message{...} finds room in the channel.
ReadMessage(c) ==
    /\ Alive /\ rpc[c] = "read" /\ conn[c] = "open"
    /\ msgsRead < MaxMsgs
    /\ Len(broadcast) < BroadcastCap
    /\ broadcast' = Sent(broadcast, MessageOf(c, Payload(msgsRead + 1)))
    /\ entered' = Append(entered, Payload(msgsRead + 1))
    /\ msgsRead' = msgsRead + 1
    /\ UNCHANGED <<clients, stats, hubPc, hpc, username, send, closes, conn, rpc,
                   pending, wpc, written, evicted, health, snap>>

\* The same when the channel is full: ReadPump blocks on the send, holding
\* the payload.
ReadMessageBlock(c) ==
    /\ Alive /\ rpc[c] = "read" /\ conn[c] = "open"
    /\ msgsRead < MaxMsgs
    /\ Len(broadcast) >= BroadcastCap
    /\ rpc' = [rpc EXCEPT ![c] = "send"]
    /\ pending' = [pending EXCEPT ![c] = MessageOf(c, Payload(msgsRead + 1))]
    /\ msgsRead' = msgsRead + 1
    /\ UNCHANGED <<clients, broadcast, stats, hubPc, hpc, username, send, closes,
                   conn, wpc, written, entered, evicted, health, snap>>

\* The blocked send goes through once the Hub has taken a Message.
Forward(c) ==
    /\ Alive /\ rpc[c] = "send"
    /\ Len(broadcast) < BroadcastCap
    /\ broadcast' = Sent(broadcast, pending[c])
    /\ entered' = Append(entered, pending[c].data)
    /\ rpc' = [rpc EXCEPT ![c] = "read"]
    /\ pending' = [pending EXCEPT ![c] = NoMessage]
    /\ UNCHANGED <<clients, stats, hubPc, hpc, username, send, closes, conn,
                   wpc, written, msgsRead, evicted, health, snap>>

\* c.conn.ReadMessage() returns an error (the peer closed or went away, the
\* read deadline passed, or the connection was closed by WritePump): break,
\* and the deferred function blocks on c.hub.unregister <- c.
ReadFail(c) ==
    /\ Alive /\ rpc[c] = "read"
    /\ rpc' = [rpc EXCEPT ![c] = "unreg"]
    /\ UNCHANGED <<clients, broadcast, stats, hubPc, hpc, username, send,
                   closes, conn, pending, wpc, written, msgsRead, entered, evicted,
                   health, snap>>

\* ----------------------------------------------------- Client.WritePump
\* A receive that takes the head of every Client's send channel.
SendAfterReceive_All(c) ==
    [d \in Ids |-> IF send[d] = <<>> THEN <<>> ELSE Tail(send[d])]

\* message, ok := <-c.send in WritePump of c: the head of c's own send
\* channel is taken, no other channel is touched.
SendAfterReceive(c) == [send EXCEPT ![c] = Tail(@)]

\* case message, ok := <-c.send with ok: WriteMessage(BinaryMessage, message)
\* succeeds.
WriteOk(c) ==
    /\ Alive /\ wpc[c] = "run" /\ send[c] # <<>>
    /\ conn[c] = "open"
    /\ send' = SendAfterReceive(c)
    /\ written' = [written EXCEPT ![c] = Append(@, Head(send[c]))]
    /\ UNCHANGED <<clients, broadcast, stats, hubPc, hpc, username, closes,
                   conn, rpc, pending, wpc, msgsRead, entered, evicted,
                   health, snap>>

\* The same case when WriteMessage fails (the connection is closed or the
\* transport breaks): the error is not looked at and the loop goes on.
WriteErr(c) ==
    /\ Alive /\ wpc[c] = "run" /\ send[c] # <<>>
    /\ send' = SendAfterReceive(c)
    /\ conn' = [conn EXCEPT ![c] = "closed"]
    /\ UNCHANGED <<clients, broadcast, stats, hubPc, hpc, username, closes,
                   rpc, pending, wpc, written, msgsRead, entered, evicted,
                   health, snap>>

\* case message, ok := <-c.send with !ok (the channel is closed and drained):
\* the close message is written, WritePump returns and closes the connection.
WriteClose(c) ==
    /\ Alive /\ wpc[c] = "run" /\ send[c] = <<>> /\ closes[c] > 0
    /\ wpc' = [wpc EXCEPT ![c] = "done"]
    /\ conn' = [conn EXCEPT ![c] = "closed"]
    /\ UNCHANGED <<clients, broadcast, stats, hubPc, hpc, username, send,
                   closes, rpc, pending, written, msgsRead, entered, evicted,
                   health, snap>>

\* case <-ticker.C when the ping cannot be written: WritePump returns and
\* closes the connection.  (A ping that is written changes nothing here.)
PingFail(c) ==
    /\ Alive /\ wpc[c] = "run"
    /\ wpc' = [wpc EXCEPT ![c] = "done"]
    /\ conn' = [conn EXCEPT ![c] = "closed"]
    /\ UNCHANGED <<clients, broadcast, stats, hubPc, hpc, username, send,
                   closes, rpc, pending, written, msgsRead, entered, evicted,
                   health, snap>>

\* --------------------------------------------------------- specification
Handler(c) ==
    \/ \E n \in Names : GateReject(c, n)
    \/ \E n \in Names : GatePass(c, n)
    \/ UpgradeFail(c)
    \/ Upgrade(c)

Hub ==
    \/ \E c \in Ids : HubRegister(c)
    \/ \E c \in Ids : HubUnregister(c)
    \/ HubBroadcast

ReadPump(c) ==
    \/ ReadMessage(c)
    \/ ReadMessageBlock(c)
    \/ Forward(c)
    \/ ReadFail(c)

WritePump(c) ==
    \/ WriteOk(c)
    \/ WriteErr(c)
    \/ WriteClose(c)
    \/ PingFail(c)

Next ==
    \/ Hub
    \/ \E c \in Ids : Handler(c)
    \/ \E c \in Ids : ReadPump(c)
    \/ \E c \in Ids : WritePump(c)

Spec == Init /\ [][Next]_vars

\* ---------------------------------------------------------- HandleHealth
\* The keys of hub.clients.
Keys == {n \in Names : clients[n] # 0}

\* hub.mu.RLock() and the loop over hub.clients that fills users.  The Hub
\* holds no lock between its two sections of the broadcast case (lines 96 to
\* 98): when a Message waits, the Hub may have received it and counted it
\* already, and then runs its fan-out, under RLock as well, while this call
\* holds its RLock ("racing").  Otherwise the next h.mu.Lock() of the Hub
\* waits for the RUnlock of this call ("listed").
HealthList ==
    /\ Alive /\ health = "idle"
    /\ \E race \in BOOLEAN :
          /\ race => BroadcastPending
          /\ health' = IF race THEN "racing" ELSE "listed"
    /\ snap' = [snap EXCEPT !.users = Keys]
    /\ UNCHANGED <<clients, broadcast, stats, hubPc, hpc, username, send, closes,
                   conn, rpc, pending, wpc, written, msgsRead, entered, evicted>>

\* clientCount := len(hub.clients); stats := hub.stats; hub.mu.RUnlock(); the
\* response is built of the three values.
HealthCount ==
    /\ Alive /\ MuReadLocked
    /\ health' = "done"
    /\ snap' = [snap EXCEPT !.clientCount = Cardinality(Keys), !.stats = stats]
    /\ UNCHANGED <<clients, broadcast, stats, hubPc, hpc, username, send, closes,
                   conn, rpc, pending, wpc, written, msgsRead, entered, evicted>>

\* The delete of the fan-out falls into the loop over hub.clients of this
\* call (both hold RLock): the runtime may detect it and end the process
\* (fatal error: concurrent map iteration and map write).
HealthMapFault ==
    /\ Alive /\ health = "racing"
    /\ \E c \in Recipients(Receive(broadcast).message) : ~CanPush(c)
    /\ hubPc' = "panic"
    /\ UNCHANGED <<clients, broadcast, stats, hpc, username, send, closes,
                   conn, rpc, pending, wpc, written, msgsRead, entered, evicted,
                   health, snap>>

HandleHealth == HealthList \/ HealthCount \/ HealthMapFault

\* The runs with one health request, followed up to its response, between
\* HealthClients connection attempts.
HealthNext ==
    \/ health # "done" /\ Hub
    \/ health # "done" /\ \E c \in 1..HealthClients : Handler(c)
    \/ health # "done" /\ \E c \in Ids : ReadPump(c)
    \/ health # "done" /\ \E c \in Ids : WritePump(c)
    \/ HandleHealth

HealthSpec == Init /\ [][HealthNext]_vars

\* The Hub goroutine is scheduled, and its select takes one of the ready
\* cases at random: a case that stays ready is taken in the end.
FairSpec ==
    /\ Spec
    /\ WF_vars(HubBroadcast)
    /\ \A c \in Ids : WF_vars(HubRegister(c)) /\ WF_vars(HubUnregister(c))

\* c.conn.ReadMessage() on a connection that is closed returns its error at
\* once.
ReadClosed(c) == conn[c] = "closed" /\ ReadFail(c)

\* The case of WritePump that receives from c.send.
Dispatch(c) == WriteOk(c) \/ WriteErr(c) \/ WriteClose(c)

\* Every goroutine is scheduled: besides the Hub, a ReadPump whose blocked
\* send has room or whose connection is closed goes on, and a WritePump with
\* something to receive from its send channel receives it.
FairAll ==
    /\ FairSpec
    /\ \A c \in Ids : /\ WF_vars(Forward(c)) /\ WF_vars(ReadClosed(c))
                      /\ WF_vars(Dispatch(c))

\* ================================================================ claims
\* The step in which Hub.Run processes the Message at the head of broadcast
\* (no other step takes a Message from the channel).
BroadcastStep == hubPc = "select" /\ broadcast # <<>> /\ Len(broadcast') < Len(broadcast)

\* Sum of the lengths of the payloads 1..k (Payload(i) has length i).
RECURSIVE SumLen(_)
SumLen(k) == IF k = 0 THEN 0 ELSE k + SumLen(k - 1)

RECURSIVE SeqSum(_)
SeqSum(q) == IF q = <<>> THEN 0 ELSE Len(Head(q).data) + SeqSum(Tail(q))

RECURSIVE PendingSum(_)
PendingSum(S) ==
    IF S = {} THEN 0
    ELSE LET c == CHOOSE x \in S : TRUE IN Len(pending[c].data) + PendingSum(S \ {c})

\* ReadPumps blocked on hub.broadcast, each holding one payload.
Blocked == {c \in Ids : rpc[c] = "send"}

\* The payload numbers held in a channel or written to a transport.
InSeq(q, d) == \E i \in 1..Len(q) : q[i] = d

\* C2: No self-delivery.  When the Hub processes a Broadcast whose sender
\* name is S, no send channel of a Client named S (the clients entry named S,
\* and the sender itself) is changed by that step.
C2_NoSelfDelivery ==
    [][BroadcastStep =>
         \A c \in Ids : username[c] = Head(broadcast).from => send'[c] = send[c]]_vars

\* Clients 1 and 2 are registered under their two names, the one payload read
\* so far has been fanned out to Client 2's channel, and Client 1, the other
\* registered Client (hence the sender), has received nothing.
C2_Witness ==
    /\ hpc[1] = "done" /\ hpc[2] = "done"
    /\ clients[username[1]] = 1 /\ clients[username[2]] = 2
    /\ msgsRead = 1 /\ stats.TotalMessages = 1
    /\ send[2] = <<Payload(1)>>
    /\ send[1] = <<>> /\ written[1] = <<>>

\* C3: Exactly-once fan-out.  When the Hub processes a Broadcast from S, every
\* Client in clients under a name other than S whose channel has room has
\* exactly the one payload appended to its channel by that step.
C3_ExactlyOnce ==
    [][BroadcastStep =>
         \A n \in Names :
            (clients[n] # 0 /\ n # Head(broadcast).from
                /\ Len(send[clients[n]]) < QueueCap)
            => send'[clients[n]] = Append(send[clients[n]], Head(broadcast).data)]_vars

\* Two broadcasts each reached the same recipient once: the first payload has
\* been written to its transport and the second is in its channel.
C3_Witness ==
    \E c \in Ids : written[c] = <<Payload(1)>> /\ send[c] = <<Payload(2)>>

\* C4: Backpressure eviction.  A recipient whose channel is full when the Hub
\* fans a Broadcast out is, in that step, removed from clients and its channel
\* closed, with nothing appended; and nothing is appended to the channel of an
\* evicted Client in any later step.
C4_BackpressureEviction ==
    [][/\ BroadcastStep =>
            \A n \in Names :
               (clients[n] # 0 /\ n # Head(broadcast).from
                   /\ Len(send[clients[n]]) >= QueueCap)
               => /\ clients'[n] = 0
                  /\ closes'[clients[n]] = closes[clients[n]] + 1
                  /\ send'[clients[n]] = send[clients[n]]
       /\ \A c \in evicted : send'[c] = send[c] \/ send'[c] = Tail(send[c])]_vars

\* A Client was evicted with its channel full of the first payloads, and the
\* Hub has processed a further Broadcast since (to a recipient that took it).
C4_Witness ==
    \E c \in evicted, r \in Ids :
        /\ Len(send[c]) = QueueCap /\ \A i \in 1..QueueCap : send[c][i] = Payload(i)
        /\ clients[username[c]] = 0
        /\ r # c /\ InSeq(send[r], Payload(QueueCap + 2))

\* C5: Counter accuracy.  TotalMessages is the number of Messages the Hub has
\* processed (the payloads read, less those still held by a blocked ReadPump
\* or waiting in broadcast) and TotalBytesRelayed is the sum of their lengths,
\* whatever number of recipients each reached.
C5_CounterAccuracy ==
    /\ stats.TotalMessages = msgsRead - Len(broadcast) - Cardinality(Blocked)
    /\ stats.TotalBytesRelayed = SumLen(msgsRead) - SeqSum(broadcast) - PendingSum(Blocked)

\* Every payload of the run has been processed, one of them evicted its
\* recipient and one reached no recipient's channel at all.
C5_Witness ==
    /\ stats.TotalMessages = MaxMsgs /\ stats.TotalBytesRelayed = SumLen(MaxMsgs)
    /\ evicted # {}
    /\ \A c \in Ids : ~InSeq(send[c], Payload(MaxMsgs)) /\ ~InSeq(written[c], Payload(MaxMsgs))
    /\ \A c \in Ids : wpc[c] = "run" => conn[c] = "open"

\* C6: Uniqueness enforcement.  An attempt whose name is a key of clients when
\* the gate looks is rejected: clients and the counters stay as they are, no
\* Client is constructed (no connection, no pump), and a rejected attempt
\* never registers.
C6_UniquenessEnforcement ==
    [][\A c \in Ids :
         /\ (hpc[c] = "idle" /\ hpc'[c] # "idle" /\ clients[username'[c]] # 0)
            => /\ hpc'[c] = "rejected"
               /\ clients' = clients /\ stats' = stats
               /\ conn'[c] = "none" /\ rpc'[c] = "none" /\ wpc'[c] = "none"
         /\ hpc[c] = "rejected"
            => /\ hpc'[c] = "rejected"
               /\ conn'[c] = "none" /\ rpc'[c] = "none" /\ wpc'[c] = "none"
               /\ clients'[username[c]] # c]_vars

\* An attempt was rejected while the Client holding its name is registered.
C6_Witness ==
    \E c \in Ids : hpc[c] = "rejected" /\ clients[username[c]] \notin {0, c}

\* C8: The Hub control loop never terminates because of a client.
C8_HubNeverTerminates == hubPc # "panic"

\* C9: Each Client's send channel is closed at most once.
C9_ClosedAtMostOnce == \A c \in Ids : closes[c] <= 1

\* The step in which Hub.Run processes the Unregister of Client c (it ends
\* with the hand-off completed, or in the panic of the close).
UnregisterStep(c) ==
    /\ hubPc = "select" /\ rpc[c] = "unreg"
    /\ rpc'[c] = "done" \/ (hubPc' = "panic" /\ closes'[c] # closes[c])

\* Clients whose Register the Hub has processed, and those whose Unregister
\* it has processed.
Registered == {c \in Ids : hpc[c] = "done"}
Unregistered == {c \in Ids : rpc[c] = "done"}

\* A Client that is the entry of clients under its name, with both pumps
\* running on a working transport and its channel open.
Healthy(c) ==
    /\ hpc[c] = "done" /\ clients[username[c]] = c
    /\ conn[c] = "open" /\ wpc[c] = "run" /\ rpc[c] \in {"read", "send"}
    /\ closes[c] = 0

\* C1: End-to-end relay.  A payload the Hub appended to the channel of a
\* recipient whose transport does not fail is eventually written to that
\* transport.  Stated for the runs that end: once the process can take no
\* further step, no payload is left in the channel of a healthy Client.
C1_RelayDelivers == ~Alive => \A r \in Ids : Healthy(r) => send[r] = <<>>

\* C7: Registry consistency.  As long as the Hub has processed register and
\* unregister events only (no broadcast has evicted anyone), the number of
\* entries of clients is the number of names with a Register processed and
\* no matching Unregister.
C7_RegistryConsistency ==
    evicted = {} =>
        Cardinality({n \in Names : clients[n] # 0})
            = Cardinality({username[c] : c \in Registered \ Unregistered})

\* C10: Isolation of Unregister.  Processing Unregister(c) removes no entry
\* of clients that refers to another Client and leaves every other Client's
\* send channel as it is.
C10_UnregisterIsolation ==
    [][\A c \in Ids : UnregisterStep(c) =>
         /\ \A n \in Names : clients[n] # c => clients'[n] = clients[n]
         /\ \A d \in Ids \ {c} : send'[d] = send[d] /\ closes'[d] = closes[d]]_vars


\* C11: The Hub never blocks on a slow consumer.  Whenever the Hub is in its
\* select with a Message in broadcast, the broadcast case can be taken at
\* once, whatever the recipients' channels hold and whatever their transports
\* do; and the step that takes it leaves the Hub in its select again, ready
\* for the next event.
C11_NeverBlocksOnConsumer ==
    /\ [](BroadcastPending => ENABLED HubBroadcast)
    /\ [][BroadcastStep => hubPc' = "select"]_vars

\* The Hub has fanned a Message out to a recipient whose channel was full and
\* whose WritePump has still taken nothing from it, and is in its select
\* with the next Message waiting.
C11_Witness ==
    /\ BroadcastPending
    /\ \E c \in evicted :
          Len(send[c]) = QueueCap /\ wpc[c] = "run" /\ conn[c] = "open" /\ written[c] = <<>>

\* C13: Unregister is idempotent.  Processing Unregister(c) when c's name is
\* not a key of clients changes neither clients, nor the counters, nor any
\* send channel (its content or its being open), c's included; processing
\* Unregister(c) when c is the entry of clients under its name removes that
\* one entry and closes c's channel and no other, and the Hub goes on.
C13_UnregisterIdempotent ==
    [][\A c \in Ids : UnregisterStep(c) =>
         /\ clients[username[c]] = 0
            => /\ clients' = clients /\ stats' = stats
               /\ send' = send /\ closes' = closes
         /\ clients[username[c]] = c
            => /\ clients' = [clients EXCEPT ![username[c]] = 0]
               /\ closes[c] = 0 /\ closes' = [closes EXCEPT ![c] = 1]
               /\ send' = send /\ stats' = stats
               /\ hubPc' = "select"]_vars

\* The Hub has processed the Unregister of a Client that backpressure had
\* removed before (its name was no key), and the Unregister of a Client that
\* was the entry under a name no other attempt asked for.
C13_Witness ==
    \E c \in evicted, d \in Ids \ evicted :
        /\ rpc[c] = "done" /\ closes[c] = 1 /\ clients[username[c]] = 0
        /\ rpc[d] = "done" /\ closes[d] = 1
        /\ \A e \in Ids \ {d} : username[e] # username[d]

\* Clients that have been registered and have not terminated: the Hub has
\* processed their Register, has not evicted them, and has not processed
\* their Unregister.
Live == {c \in Registered \ Unregistered : c \notin evicted}

\* C14: Registry invariant.  At every reachable state the keys of clients are
\* exactly the names of the Clients that have been registered and have not
\* terminated: no live Client's name is missing, and no name remains whose
\* Clients were all evicted or have terminated.  (clients is a map: no two
\* entries share a name.)
C14_RegistryInvariant ==
    {n \in Names : clients[n] # 0} = {username[c] : c \in Live}

\* The number of Messages the Hub has taken from broadcast.
Taken == Len(entered) - Len(broadcast)

\* C15 (as stated): strict arrival order over the three channels.  ReadPump
\* submits every Message of its Client before it submits the Client's
\* Unregister, so when the Hub processes Unregister(c) no Message of c is
\* still waiting in broadcast.
C15_StrictArrivalOrder ==
    [][\A c \in Ids : UnregisterStep(c) =>
         \A i \in 1..Len(broadcast) : broadcast[i].id # c]_vars

\* C15 (amended): the Hub processes one event at a time and the Messages in
\* the order in which they entered broadcast: the Messages it has processed
\* are the first to have entered, and those waiting are the rest, in their
\* order of entry.  (Between events of different channels there is no order:
\* see C15_Witness.)
C15_MessagesInEntryOrder ==
    /\ stats.TotalMessages = Taken
    /\ \A i \in 1..Len(broadcast) : broadcast[i].data = entered[Taken + i]

\* The Hub has processed a Message and then the Unregister of a Client, while
\* two later Messages, one of them submitted by that Client before its
\* Unregister, wait in broadcast in their order of entry.
C15_Witness ==
    /\ Taken = 1 /\ Len(broadcast) = 2
    /\ \E c \in Ids : rpc[c] = "done" /\ \E i \in 1..2 : broadcast[i].id = c

\* The step in which the WritePump of Client c takes a payload from the send
\* channel and the write to the transport fails.
WriteFailStep(c) ==
    /\ wpc[c] = "run" /\ send[c] # <<>>
    /\ send'[c] = Tail(send[c]) /\ written'[c] = written[c]

\* C17: A payload write failure is fatal to the dispatch loop.  The step in
\* which WritePump fails to write a payload ends the loop, with the transport
\* closed, so that it takes no further payload from the channel.
C17_WriteFailureFatal ==
    [][\A c \in Ids : WriteFailStep(c) => wpc'[c] = "done" /\ conn'[c] = "closed"]_vars

\* C18: Eviction is terminal for participation.  No Message whose payload was
\* read from the transport of a Client after the Hub had evicted that Client
\* is fanned out: the step that processes such a Message appends to no send
\* channel.
C18_EvictionTerminal ==
    [][BroadcastStep =>
         (Head(broadcast).late => \A r \in Ids : send'[r] = send[r])]_vars

\* The place of a payload in the order of entry into broadcast (all payloads
\* of a run differ).
EntryOf(d) == CHOOSE k \in 1..Len(entered) : entered[k] = d

\* The payloads the Hub has appended to the send channel of Client r and
\* WritePump has not dropped: those written, then those waiting.
Received(r) == written[r] \o send[r]

RegisterStep(c) == hubPc = "select" /\ hpc[c] = "register" /\ hpc'[c] = "done"

\* Registered Clients that are not the entry of clients under their name.
NotEntry == {c \in Registered : clients[username[c]] # c}

\* C20: Same-name race and overwrite.  Two attempts with one name can both
\* pass the gate and register (C20_Witness).  The Register processed later
\* puts its Client in place of the entry stored under the name and leaves
\* every send channel as it is, open or closed, the overwritten Client's
\* included; and a Client that is not the entry under its name is never
\* again appended to, nor becomes the entry again.
C20_SameNameOverwrite ==
    [][/\ \A c \in Ids : RegisterStep(c) =>
            /\ clients' = [clients EXCEPT ![username[c]] = c]
            /\ closes' = closes /\ send' = send
       /\ \A c \in NotEntry :
            /\ send'[c] = send[c] \/ send'[c] = Tail(send[c])
            /\ clients'[username[c]] # c]_vars

\* Two Clients of one name are registered, the second having passed the gate
\* before the Register of the first was processed; the second is the entry,
\* the channel of the first is open with its pumps running, and a Message
\* from a Client of another name has been fanned out to the second and not
\* to the first.
C20_Witness ==
    \E a, b \in Ids :
        /\ a < b /\ username[a] = username[b]
        /\ hpc[a] = "done" /\ hpc[b] = "done" /\ clients[username[b]] = b
        /\ closes[a] = 0 /\ wpc[a] = "run" /\ rpc[a] = "read" /\ conn[a] = "open"
        /\ stats.TotalMessages = 1 /\ msgsRead = 1
        /\ send[b] = <<Payload(1)>> /\ send[a] = <<>> /\ written[a] = <<>>

\* Client c is the entry of clients under its name.
IsEntry(c) == username[c] # 0 /\ clients[username[c]] = c

\* C16: Ingest-loop termination leads to removal.  Once the ReadPump of a
\* Client has left its loop and submits the Unregister of the Client, the
\* Client is, under fair scheduling of the Hub, eventually not the entry of
\* clients under its name.
C16_TerminationLeadsToRemoval ==
    \A c \in Ids : (rpc[c] = "unreg") ~> ~IsEntry(c)

\* C12: Snapshot consistency.  The values of one response of HandleHealth
\* were held by the Hub at one instant; in particular the client count of
\* the response is the number of names it lists.
C12_SnapshotConsistent ==
    health = "done" => snap.clientCount = Cardinality(snap.users)

\* The step that closes the send channel of Client c (an eviction or the
\* Unregister of c).
CloseStep(c) == closes'[c] > closes[c]

\* C21: Drain on closure.  After the send channel of a Client is closed, its
\* WritePump still writes the payloads that were in the channel.  For that,
\* the step that closes the channel of a Client whose WritePump runs on a
\* working transport with payloads waiting leaves the transport open: on a
\* closed transport no waiting payload can be written.
C21_DrainOnClosure ==
    [][\A c \in Ids :
         (CloseStep(c) /\ wpc[c] = "run" /\ conn[c] = "open" /\ send[c] # <<>>)
            => conn'[c] = "open"]_vars

\* The names the sweep for Message m goes through: the keys of clients when
\* the sweep starts, less the sender's name.
SweepNames(m) == {n \in Keys : n # m.from}

\* C22: The fan-out is atomic with respect to membership.  In the step that
\* sweeps clients for one Message no Register and no Unregister takes effect
\* (no hand-off completes, no entry is added or replaced); the entries that
\* go are recipients the sweep found full; and every entry held at the start
\* under a name other than the sender's is either appended to or evicted.
C22_FanOutAtomic ==
    [][BroadcastStep =>
         /\ hpc' = hpc /\ rpc' = rpc
         /\ \A n \in Names \ SweepNames(Head(broadcast)) : clients'[n] = clients[n]
         /\ \A n \in SweepNames(Head(broadcast)) :
               \/ /\ clients'[n] = clients[n]
                  /\ send'[clients[n]] = Append(send[clients[n]], Head(broadcast).data)
               \/ /\ clients'[n] = 0
                  /\ Len(send[clients[n]]) >= QueueCap
                  /\ send'[clients[n]] = send[clients[n]]]_vars

\* The Hub has swept for two Messages and evicted a recipient, while a
\* Register for the name of the evicted Client and the Unregister of the
\* sender wait for the Hub.
C22_Witness ==
    /\ Taken = 2 /\ broadcast = <<>>
    /\ \E c \in Ids, d \in Ids, e \in evicted :
          /\ hpc[c] = "register" /\ username[c] = username[e] /\ clients[username[c]] = 0
          /\ rpc[d] = "unreg" /\ IsEntry(d)

\* C23: A keepalive failure is fatal and leads to removal.  Once the
\* WritePump of a Client has returned on a failed ping (it is done while the
\* send channel was never closed; the transport is closed by its deferred
\* function), the ReadPump observes the closure and submits the Unregister,
\* and under fair scheduling the Client is eventually not the entry of
\* clients under its name.
C23_KeepaliveFailureLeadsToRemoval ==
    \A c \in Ids : (wpc[c] = "done" /\ closes[c] = 0) ~> ~IsEntry(c)

\* C24: Connection counter.  TotalConnections is the number of Registers the
\* Hub has processed, those that replaced an entry included; no counter ever
\* decreases; the Unregister step changes no counter, and a broadcast step
\* changes the counters in the same way whether or not it evicts.
C24_ConnectionCounter ==
    /\ [](stats.TotalConnections = Cardinality(Registered))
    /\ [][/\ stats'.TotalConnections >= stats.TotalConnections
          /\ stats'.TotalMessages >= stats.TotalMessages
          /\ stats'.TotalBytesRelayed >= stats.TotalBytesRelayed
          /\ \A c \in Ids : UnregisterStep(c) => stats' = stats
          /\ BroadcastStep =>
                /\ stats'.TotalConnections = stats.TotalConnections
                /\ stats'.TotalMessages = stats.TotalMessages + 1
                /\ stats'.TotalBytesRelayed
                      = stats.TotalBytesRelayed + Len(Head(broadcast).data)]_vars

\* Three Registers have been processed, one of them in place of an entry of
\* the same name; a recipient has been evicted and an Unregister processed.
C24_Witness ==
    /\ stats.TotalConnections = 3 /\ evicted # {} /\ Unregistered # {}
    /\ \E a, b \in Registered : a # b /\ username[a] = username[b]

\* C25: Eviction hits only saturated recipients.  In every broadcast step,
\* also one that evicts another recipient, a recipient whose send channel has
\* room is appended to, stays the entry of clients under its name and keeps
\* its channel open.
C25_OnlySaturatedEvicted ==
    [][BroadcastStep =>
         \A n \in SweepNames(Head(broadcast)) :
            Len(send[clients[n]]) < QueueCap
               => /\ clients'[n] = clients[n]
                  /\ closes'[clients[n]] = 0
                  /\ clients[n] \notin evicted'
                  /\ Len(send'[clients[n]]) = Len(send[clients[n]]) + 1]_vars

\* The sweep for the second Message found one recipient full of the first
\* payload and evicted it, and appended to another recipient, which had
\* written the first payload: that one is still the entry, its channel open.
C25_Witness ==
    /\ Taken = 2
    /\ \E e \in evicted, r \in Ids \ evicted :
          /\ send[e] = <<entered[1]>> /\ written[e] = <<>>
          /\ written[r] = <<entered[1]>> /\ send[r] = <<entered[2]>>
          /\ IsEntry(r) /\ closes[r] = 0

\* C26: Queue bound.  Each send channel holds at most its capacity; a payload
\* is appended to it only by the Hub's fan-out, and the head is removed only
\* by WritePump of the Client that owns the channel.
C26_QueueBound ==
    /\ [](\A c \in Ids : Len(send[c]) <= QueueCap)
    /\ [][/\ BroadcastStep =>
               \A c \in Ids : \/ send'[c] = send[c]
                               \/ send'[c] = Append(send[c], Head(broadcast).data)
          /\ (send' # send /\ ~BroadcastStep) =>
               \E c \in Ids :
                  /\ wpc[c] = "run" /\ send[c] # <<>>
                  /\ send' = [send EXCEPT ![c] = Tail(@)]
                  /\ broadcast' = broadcast /\ clients' = clients
                  /\ \/ written' = [written EXCEPT ![c] = Append(@, Head(send[c]))]
                     \/ written' = written /\ conn'[c] = "closed"]_vars

\* A Client has written a payload and its send channel is full again, while
\* another Client's full channel made the sweep evict it.
C26_Witness ==
    \E c \in Ids, e \in evicted :
       /\ c # e /\ written[c] # <<>> /\ Len(send[c]) = QueueCap
       /\ Len(send[e]) = QueueCap

\* C27: Lock discipline.  While a reader holds h.mu.RLock (the health
\* snapshot between its first read of clients and its RUnlock), no step
\* inserts into or deletes from clients.
C27_NoWriteUnderReadLock ==
    [][MuReadLocked => clients' = clients]_vars

\* C28: Registered implies open queue.  Every Client that is an entry of
\* clients has a send channel that was never closed, so the Message at the
\* head of broadcast has no recipient with a closed channel and no broadcast
\* step panics.
C28_RegisteredImpliesOpen ==
    /\ [](\A n \in Names : clients[n] # 0 => closes[clients[n]] = 0)
    /\ [](broadcast # <<>> => ~PushPanics(Head(broadcast)))
    /\ [][BroadcastStep => hubPc' = "select"]_vars

\* A name was evicted, taken again by a new connection and swept again: the
\* new entry got a payload on its open channel, while the old Client's
\* channel is closed and another Client has unregistered.
C28_Witness ==
    \E e \in evicted, c \in Ids \ evicted, u \in Unregistered :
       /\ username[c] = username[e] /\ IsEntry(c)
       /\ closes[e] > 0 /\ closes[c] = 0 /\ send[c] # <<>>
       /\ u # c

C30_TeardownAfterEviction ==
    \A c \in Ids :
       (c \in evicted) ~> (wpc[c] = "done" /\ conn[c] = "closed" /\ rpc[c] = "done")

====
